---- MODULE Spec2Model ----
(***************************************************************************)
(* Model of modular_sdk.services.tenant_service.TenantService: the         *)
(* linkage (parent_map) mutation protocol of a Tenant record.              *)
(*                                                                         *)
(* A caller obtains an in-memory Tenant with TenantService.get and hands   *)
(* it to add_to_parent_map / remove_from_parent_map.  Every precondition   *)
(* of these two methods is evaluated on the caller's in-memory copy; the   *)
(* only access to the table is the single tenant.update(actions=[...])     *)
(* request, which the table applies atomically and whose answer (the new   *)
(* item) is loaded back into the in-memory object.                         *)
(***************************************************************************)
EXTENDS Integers, FiniteSets, Sequences, TLC

(* ---- bounds ---------------------------------------------------------- *)

\* number of callers, each holding at most one in-memory Tenant at a time
NumCallers == 2

Callers == 1..NumCallers

\* the one sequential caller of SpecSeq
SeqCallers == {1}

\* names (hash keys) of the tenants in the table
Tenants == {"T1"}

\* the Parent objects handed to add_to_parent_map
Parents ==
    { [parent_id |-> "P1", is_deleted |-> FALSE],
      [parent_id |-> "P2", is_deleted |-> FALSE],
      [parent_id |-> "P3", is_deleted |-> TRUE] }

LiveParentIds == {p.parent_id : p \in {q \in Parents : ~q.is_deleted}}

DeletedParentIds == {p.parent_id : p \in {q \in Parents : q.is_deleted}}

(* ---- constants of the program ---------------------------------------- *)

\* the allow-list of linkage types (two representative members)
ALLOWED_TENANT_PARENT_MAP_KEYS == {"TENANT_MANAGER", "CUSTODIAN"}

\* the type_ arguments callers pass: the allow-listed ones and an unknown one
TypeArgs == ALLOWED_TENANT_PARENT_MAP_KEYS \cup {"UNKNOWN"}

\* maps from some of the keys K to values of V
MapsOver(K, V) == UNION {[S -> V] : S \in SUBSET K}

DictSetSkipped(d, k, v) == d

\* a Python dict d with d[k] = v assigned
DictSet(d, k, v) == [x \in (DOMAIN d) \cup {k} |-> IF x = k THEN v ELSE d[x]]

\* a map with key k deleted (no effect when k is absent)
DictDel(d, k) == [x \in (DOMAIN d) \ {k} |-> d[x]]

EmptyDict == [x \in {} |-> "P1"]

(* ---- outcomes of a call ---------------------------------------------- *)

Returned == [exc |-> "none", code |-> "none", content |-> "none"]

\* raise ModularException(code=RESPONSE_BAD_REQUEST_CODE, content=...)
ModularException(content) ==
    [exc |-> "ModularException", code |-> "RESPONSE_BAD_REQUEST_CODE",
     content |-> content]

InvalidLinkageType == ModularException("Unsupported type")

EntityInactive == ModularException("Tenant is not active")

\* the content of this one reads "Tenant ... is deleted" in the code
TargetDeleted == ModularException("Tenant is deleted")

LinkageAlreadySet == ModularException("Tenant already has linkage type")

\* raised by the table for an update of a key of a map that is not in the item
ValidationException ==
    [exc |-> "ValidationException", code |-> "none",
     content |-> "document path invalid for update"]

(* ---- state ----------------------------------------------------------- *)

VARIABLES
    stored,   \* the table: tenant name -> item
    mem,      \* caller -> the in-memory Tenant it holds
    last,     \* the latest step, if it was a service call of an observed
              \* caller: arguments, outcome, state before
              \* (afterDetach: an attach whose caller's call right before it
              \* was a detach of the same type that undid an earlier attach)
    linked,   \* tenant name, linkage type -> parent id of the latest attach
              \* the table applied for that slot and that no applied detach
              \* of the slot has followed ("-" if there is none)
    table,    \* the Tenant items as the scans and queries read them, in key
              \* order
    q,        \* the latest scan or query: its arguments and what it returned
    page,     \* a caller's loop over the pages of a scan
    dto       \* the latest get_dto call: the tenant's JSON and the result

linkvars == <<stored, mem, last, linked>>

readvars == <<table, q, page, dto>>

vars == <<stored, mem, last, linked, table, q, page, dto>>

\* an item of the table; has_map = FALSE: the parent_map attribute was never
\* written to the item
Items ==
    {i \in [name : Tenants, is_active : BOOLEAN, has_map : BOOLEAN,
            parent_map : MapsOver(ALLOWED_TENANT_PARENT_MAP_KEYS, LiveParentIds)] :
        ~i.has_map => i.parent_map = EmptyDict}

NoTenant ==
    [loaded |-> FALSE, name |-> "T1", is_active |-> FALSE,
     parent_map |-> EmptyDict]

NoItem ==
    [name |-> "T1", is_active |-> FALSE, has_map |-> FALSE,
     parent_map |-> EmptyDict]

NoCall ==
    [op |-> "none", caller |-> 1, type_ |-> "UNKNOWN", parent |-> "P1",
     parent_deleted |-> FALSE, result |-> Returned, updated |-> FALSE,
     linkedBefore |-> "-", afterDetach |-> FALSE,
     storedBefore |-> NoItem, memBefore |-> NoTenant]

(* ---- the model class and the table ----------------------------------- *)

\* the in-memory Tenant built from an item; a missing parent_map attribute
\* takes the attribute's default, an empty dict
Deserialize(item) ==
    [loaded |-> TRUE, name |-> item.name, is_active |-> item.is_active,
     parent_map |-> item.parent_map]

\* Tenant.parent_map.set(parent_map): the whole attribute is replaced
SetAction(parent_map) == [kind |-> "SET", key |-> "none", value |-> parent_map]

\* Tenant.parent_map[type_].remove(): one key of the attribute is removed
RemoveAction(type_) == [kind |-> "REMOVE", key |-> type_, value |-> EmptyDict]

\* whether the table accepts the update action on the item: a single key can
\* be addressed only when the map is already in the item
UpdateAccepted(item, action) ==
    action.kind = "REMOVE" => item.has_map

\* the item after an accepted update action
UpdateItem(item, action) ==
    IF action.kind = "SET"
    THEN [item EXCEPT !.has_map = TRUE, !.parent_map = action.value]
    ELSE [item EXCEPT !.parent_map = DictDel(item.parent_map, action.key)]

\* tenant.update(...) loads the item the table answers with into the object
\* it was called on
Refresh(item) == Deserialize(item)

(* ---- TenantService ---------------------------------------------------- *)

TypeAllowedAlways(type_) == TRUE

\* type_ in ALLOWED_TENANT_PARENT_MAP_KEYS
TypeAllowed(type_) == type_ \in ALLOWED_TENANT_PARENT_MAP_KEYS

TenantIsActiveAlways(tenant) == TRUE

\* tenant.is_active
TenantIsActive(tenant) == tenant.is_active

ParentIsDeletedNever(parent) == FALSE

\* parent.is_deleted
ParentIsDeleted(parent) == parent.is_deleted

SlotTakenNever(parent_map, type_) == FALSE

\* type_ in parent_map
SlotTaken(parent_map, type_) == type_ \in DOMAIN parent_map

\* what a call does: how it ends and the update actions it sends
Outcome(result, actions) == [result |-> result, actions |-> actions]

\* the first two checks in the other order
add_to_parent_map_ActiveFirst(tenant, parent, type_) ==
    IF ~TenantIsActive(tenant) THEN Outcome(EntityInactive, <<>>)
    ELSE IF ~TypeAllowed(type_) THEN Outcome(InvalidLinkageType, <<>>)
    ELSE IF ParentIsDeleted(parent) THEN Outcome(TargetDeleted, <<>>)
    ELSE IF SlotTaken(tenant.parent_map, type_)
         THEN Outcome(LinkageAlreadySet, <<>>)
    ELSE Outcome(Returned,
             <<SetAction(DictSet(tenant.parent_map, type_, parent.parent_id))>>)

add_to_parent_map(tenant, parent, type_) ==
    IF ~TypeAllowed(type_) THEN Outcome(InvalidLinkageType, <<>>)
    ELSE IF ~TenantIsActive(tenant) THEN Outcome(EntityInactive, <<>>)
    ELSE IF ParentIsDeleted(parent) THEN Outcome(TargetDeleted, <<>>)
    ELSE IF SlotTaken(tenant.parent_map, type_)
         THEN Outcome(LinkageAlreadySet, <<>>)
    ELSE Outcome(Returned,
             <<SetAction(DictSet(tenant.parent_map, type_, parent.parent_id))>>)

\* the detach written the way the attach is: the whole map is sent
remove_from_parent_map_WholeMap(tenant, type_) ==
    IF ~TenantIsActive(tenant) THEN Outcome(Returned, <<>>)
    ELSE Outcome(Returned, <<SetAction(DictDel(tenant.parent_map, type_))>>)

\* a detach that returns without sending the update
remove_from_parent_map_Skipped(tenant, type_) == Outcome(Returned, <<>>)

remove_from_parent_map(tenant, type_) ==
    IF ~TenantIsActive(tenant) THEN Outcome(Returned, <<>>)
    ELSE Outcome(Returned, <<RemoveAction(type_)>>)

(* ---- the items the scans and queries read ---------------------------- *)

\* number of Tenant items in the table
NumRecords == 3

\* the hash keys of the items, in key order
Names == <<"T1", "T2", "T3", "T4", "T5">>

\* strings that are compared letter by letter are sequences of letters
AWS == <<"A", "W", "S">>

AZURE == <<"A", "Z", "U", "R", "E">>

\* the cloud arguments callers pass (None is [given |-> FALSE])
CloudArgs ==
    { [given |-> FALSE, value |-> <<>>],
      [given |-> TRUE, value |-> <<"a", "w", "s">>],
      [given |-> TRUE, value |-> <<"A", "w", "s">>],
      [given |-> TRUE, value |-> AWS],
      [given |-> TRUE, value |-> <<"a", "z", "u", "r", "e">>] }

\* Python's None where a string or a bool is expected
None == "None"

\* the active / only_active arguments: None, True, False
ActiveArgs == {None, "True", "False"}

\* the tenant_name arguments: None, the empty string and two names
TenantNameArgs == {None, "", "T1", "T2"}

ParentIdArgs == {"P1", "P2"}

CustomerArgs == {"C1", "C2"}

AccArgs == {"A1", "A2"}

DntlArgs == {"corp-unit-1", "corp-unit-2"}

\* the attributes of a Tenant item that the scans and queries read
TenantRecord(name, active, parent, customer, project, dntl, cloud) ==
    [name |-> name, is_active |-> active, management_parent_id |-> parent,
     customer_name |-> customer, project |-> project,
     dntl |-> dntl, cloud |-> cloud]

\* the items a table may hold under hash key name: the attributes that one
\* query shape reads vary, the others have one value
RecordsNamed(name) ==
    {TenantRecord(name, a, p, "C1", "A1", "corp-unit-1", AWS) :
         a \in BOOLEAN, p \in ParentIdArgs}
    \cup {TenantRecord(name, a, "P1", c, "A1", "corp-unit-1", AWS) :
         a \in BOOLEAN, c \in CustomerArgs}
    \cup {TenantRecord(name, a, "P1", "C1", j, "corp-unit-1", AWS) :
         a \in BOOLEAN, j \in AccArgs}
    \cup {TenantRecord(name, a, "P1", "C1", "A1", d, c) :
         a \in BOOLEAN, d \in DntlArgs, c \in {AWS, AZURE}}

\* the tables: NumRecords items in key order, all varying in the attributes
\* of the same query shape
SameShape(t) ==
    \/ \A i \in DOMAIN t : <<t[i].customer_name, t[i].project, t[i].dntl, t[i].cloud>>
                               = <<"C1", "A1", "corp-unit-1", AWS>>
    \/ \A i \in DOMAIN t : <<t[i].management_parent_id, t[i].project, t[i].dntl, t[i].cloud>>
                               = <<"P1", "A1", "corp-unit-1", AWS>>
    \/ \A i \in DOMAIN t : <<t[i].management_parent_id, t[i].customer_name, t[i].dntl, t[i].cloud>>
                               = <<"P1", "C1", "corp-unit-1", AWS>>
    \/ \A i \in DOMAIN t : <<t[i].management_parent_id, t[i].customer_name, t[i].project>>
                               = <<"P1", "C1", "A1">>

Tables ==
    {t \in [1..NumRecords -> UNION {RecordsNamed(Names[i]) : i \in 1..NumRecords}] :
        /\ \A i \in 1..NumRecords : t[i].name = Names[i]
        /\ SameShape(t)}

(* ---- conditions and the scan / query of the table --------------------- *)

\* a condition: None, or the conjunction of comparisons attribute == value
NoCondition == [none |-> TRUE, leaves |-> <<>>]

\* Tenant.<attr> == value
Eq(attr, value) ==
    [none |-> FALSE, leaves |-> <<[attr |-> attr, value |-> value]>>]

\* left & right (the operator of `condition &= ...`); None & right is right
And(left, right) ==
    IF left.none THEN right
    ELSE [none |-> FALSE, leaves |-> left.leaves \o right.leaves]

\* whether the item satisfies the condition; None filters nothing
Eval(condition, item) ==
    \A i \in DOMAIN condition.leaves :
        item[condition.leaves[i].attr] = condition.leaves[i].value

\* the position of the item with hash key last_evaluated_key (0 for None)
Position(tbl, last_evaluated_key) ==
    IF last_evaluated_key = None THEN 0
    ELSE CHOOSE i \in DOMAIN tbl : tbl[i].name = last_evaluated_key

\* the k-th smallest member of the set S of numbers
Kth(S, k) == CHOOSE i \in S : Cardinality({j \in S : j <= i}) = k

\* one call of the table's scan / query: the items after the cursor that
\* satisfy both conditions, at most limit of them (limit 0 stands for None),
\* and the cursor to go on from (None when the items are exhausted)
Execute(tbl, key_condition, filter_condition, limit, last_evaluated_key) ==
    LET start == Position(tbl, last_evaluated_key)
        found == {i \in DOMAIN tbl : /\ i > start
                                      /\ Eval(key_condition, tbl[i])
                                      /\ Eval(filter_condition, tbl[i])}
        taken == IF limit = 0 THEN found
                 ELSE {i \in found : Cardinality({j \in found : j < i}) < limit}
        n == Cardinality(taken)
    IN  [items |-> [k \in 1..n |-> tbl[Kth(taken, k)]],
         last_evaluated_key |->
             IF limit # 0 /\ n = limit THEN tbl[Kth(taken, n)].name ELSE None]

\* list(iterator)
List(result) == result.items

(* ---- TenantService: scans and queries --------------------------------- *)

\* True / False as the value of a boolean attribute
PyBool(b) == b = "True"

UpperChar(ch) ==
    CASE ch = "a" -> "A" [] ch = "w" -> "W" [] ch = "s" -> "S"
      [] ch = "z" -> "Z" [] ch = "u" -> "U" [] ch = "r" -> "R"
      [] ch = "e" -> "E" [] OTHER -> ch

\* str.upper()
Upper(str) == [i \in DOMAIN str |-> UpperChar(str[i])]

\* default_instance(value, str): the value if it is a string, else str()
default_instance(value) == IF value = None THEN "" ELSE value

ActiveConditionDropped(active) == NoCondition

\* active if active is None else (Tenant.is_active == active)
ActiveCondition(active) ==
    IF active = None THEN NoCondition ELSE Eq("is_active", PyBool(active))

i_scan_tenants_FromStart(tbl, only_active, limit, last_evaluated_key) ==
    Execute(tbl, NoCondition,
            IF only_active THEN And(NoCondition, Eq("is_active", TRUE))
            ELSE NoCondition,
            limit, None)

i_scan_tenants(tbl, only_active, limit, last_evaluated_key) ==
    LET condition == IF only_active
                     THEN And(NoCondition, Eq("is_active", TRUE))
                     ELSE NoCondition
    IN  Execute(tbl, NoCondition, condition, limit, last_evaluated_key)

scan_tenants(tbl, only_active, limit, last_evaluated_key) ==
    List(i_scan_tenants(tbl, only_active, limit, last_evaluated_key))

i_get_tenant_by_parent_id(tbl, parent_id, active, limit, last_evaluated_key) ==
    LET condition0 == ActiveCondition(active)
        condition == IF ~condition0.none
                     THEN And(condition0, Eq("management_parent_id", parent_id))
                     ELSE condition0
    IN  Execute(tbl, NoCondition, condition, limit, last_evaluated_key)

get_tenants_by_parent_id(tbl, parent_id, only_active) ==
    List(i_get_tenant_by_parent_id(tbl, parent_id, only_active, 0, None))

\* the name filter replaces the condition instead of joining it
CustomerConditionReplaced(active, tenant_name) ==
    LET name == default_instance(tenant_name)
    IN  IF name # "" THEN Eq("name", name) ELSE ActiveCondition(active)

\* the filter condition of i_get_tenant_by_customer
CustomerCondition(active, tenant_name) ==
    LET condition == ActiveCondition(active)
        name == default_instance(tenant_name)
    IN  IF ~condition.none /\ name # "" THEN And(condition, Eq("name", name))
        ELSE IF name # "" THEN Eq("name", name)
        ELSE condition

i_get_tenant_by_customer(tbl, customer_id, active, tenant_name, limit, lek) ==
    Execute(tbl, Eq("customer_name", customer_id),
            CustomerCondition(active, tenant_name), limit, lek)

i_get_by_acc(tbl, acc, active, limit, last_evaluated_key) ==
    Execute(tbl, Eq("project", acc), ActiveCondition(active), limit,
            last_evaluated_key)

CloudConditionAsGiven(cloud) ==
    IF ~cloud.given THEN NoCondition ELSE Eq("cloud", cloud.value)

\* None if cloud is None else (Tenant.cloud == cloud.upper())
CloudCondition(cloud) ==
    IF ~cloud.given THEN NoCondition ELSE Eq("cloud", Upper(cloud.value))

i_get_by_dntl(tbl, dntl, cloud, active, limit, last_evaluated_key) ==
    LET fc == ActiveCondition(active)
        rc == CloudCondition(cloud)
    IN  Execute(tbl, And(Eq("dntl", dntl), rc), fc, limit, last_evaluated_key)

(* ---- TenantService.get_dto -------------------------------------------- *)

\* longest regions list of a tenant's JSON
MaxRegions == 2

Absent == "absent"

\* a region of the JSON: the keys maestro_name and is_active may be absent,
\* is_active may be None
RegionEntries ==
    [maestro_name : {Absent, "eu-west-1", "eu-central-1"},
     is_active : {Absent, None, "True", "False"}]

\* the JSON of a tenant, as far as get_dto reads it; has_regions = FALSE:
\* the key regions is absent or None
TenantJsons ==
    {j \in [project : {Absent, "A1"}, has_regions : BOOLEAN,
            regions : UNION {[1..n -> RegionEntries] : n \in 0..MaxRegions}] :
        ~j.has_regions => j.regions = <<>>}

RegionShownIfFlagged(each) ==
    each.maestro_name # Absent /\ each.is_active = "True"

\* 'maestro_name' in each and each.get('is_active') != False
RegionShown(each) ==
    each.maestro_name # Absent /\ each.is_active # "False"

\* [each['maestro_name'] for each in regions if ...]
RECURSIVE SelectRegions(_)
SelectRegions(seq) ==
    IF seq = <<>> THEN <<>>
    ELSE (IF RegionShown(Head(seq)) THEN <<Head(seq).maestro_name>> ELSE <<>>)
             \o SelectRegions(Tail(seq))

\* has_project = FALSE: the key project was popped from the JSON
get_dto(tenant_json) ==
    LET regions == IF tenant_json.has_regions THEN tenant_json.regions
                   ELSE <<>>
    IN  [has_project |-> FALSE,
         account_id |-> IF tenant_json.project = Absent THEN None
                        ELSE tenant_json.project,
         regions |-> SelectRegions(regions)]

(* ---- idle values of the read side -------------------------------------- *)

NoQuery ==
    [op |-> "none", key |-> "", active |-> None, tenant_name |-> None,
     cloud |-> [given |-> FALSE, value |-> <<>>], items |-> <<>>]

NoPage ==
    [phase |-> "idle", only_active |-> FALSE, cursor |-> None,
     collected |-> <<>>, calls |-> 0]

NoDto ==
    [called |-> FALSE,
     tenant_json |-> [project |-> Absent, has_regions |-> FALSE, regions |-> <<>>],
     result |-> [has_project |-> FALSE, account_id |-> None, regions |-> <<>>]]

ReadIdle == q = NoQuery /\ page = NoPage /\ dto = NoDto

(* ---- actions ---------------------------------------------------------- *)

\* the callers whose calls the history variable last records.  Every caller
\* runs the same code on the same table, so a call of any caller is, with the
\* callers renamed, a call of this one; a step of another caller resets last.
Observed(c) == c \in SeqCallers

Init ==
    /\ stored \in {f \in [Tenants -> Items] : \A t \in Tenants : f[t].name = t}
    /\ mem = [c \in Callers |-> NoTenant]
    /\ last = NoCall
    /\ linked = [t \in Tenants |-> [k \in ALLOWED_TENANT_PARENT_MAP_KEYS |-> "-"]]
    /\ table = <<>>
    /\ ReadIdle

\* TenantService.get(tenant_name)
Get(c, tenant_name) ==
    /\ mem' = [mem EXCEPT ![c] = Deserialize(stored[tenant_name])]
    /\ last' = IF Observed(c) THEN [NoCall EXCEPT !.op = "get", !.caller = c]
               ELSE NoCall
    /\ UNCHANGED <<stored, linked>>
    /\ UNCHANGED readvars

\* a call of a service method that ends as out: tenant.update(actions=...)
\* sends the request, the table applies it, the answer refreshes the object
Call(c, op, type_, parent, out) ==
    LET tenant == mem[c]
        item == stored[tenant.name]
        sent == out.actions # <<>>
        accepted == sent /\ UpdateAccepted(item, out.actions[1])
        item2 == IF accepted THEN UpdateItem(item, out.actions[1]) ELSE item
    IN  /\ stored' = [stored EXCEPT ![tenant.name] = item2]
        /\ mem' = [mem EXCEPT ![c] =
                       IF accepted THEN Refresh(item2) ELSE tenant]
        /\ last' = IF ~Observed(c) THEN NoCall ELSE
                   [op |-> op, caller |-> c, type_ |-> type_,
                     parent |-> parent.parent_id,
                     parent_deleted |-> parent.is_deleted,
                     result |-> IF sent /\ ~accepted THEN ValidationException
                                ELSE out.result,
                     updated |-> sent,
                     linkedBefore |-> IF type_ \in DOMAIN linked[tenant.name]
                                      THEN linked[tenant.name][type_] ELSE "-",
                     afterDetach |-> /\ op = "add"
                                     /\ last.op = "remove"
                                     /\ last.caller = c
                                     /\ last.type_ = type_
                                     /\ last.linkedBefore # "-"
                                     /\ last.result = Returned,
                     storedBefore |-> item, memBefore |-> tenant]
        /\ linked' =
               IF accepted /\ type_ \in DOMAIN linked[tenant.name]
               THEN [linked EXCEPT ![tenant.name][type_] =
                        IF op = "add" THEN parent.parent_id ELSE "-"]
               ELSE linked
        /\ UNCHANGED readvars

AddToParentMap(c, parent, type_) ==
    /\ mem[c].loaded
    /\ Call(c, "add", type_, parent, add_to_parent_map(mem[c], parent, type_))

RemoveFromParentMap(c, type_) ==
    /\ mem[c].loaded
    /\ Call(c, "remove", type_, CHOOSE p \in Parents : p.parent_id = "P1",
            remove_from_parent_map(mem[c], type_))

Step(c) ==
    \/ \E t \in Tenants : Get(c, t)
    \/ \E p \in Parents, type_ \in TypeArgs : AddToParentMap(c, p, type_)
    \/ \E type_ \in TypeArgs : RemoveFromParentMap(c, type_)

Next == \E c \in Callers : Step(c)

Spec == Init /\ [][Next]_vars

\* one caller, working on one in-memory Tenant at a time
NextSeq == \E c \in SeqCallers : Step(c)

SpecSeq == Init /\ [][NextSeq]_vars

(* ---- scans and queries of a table -------------------------------------- *)

\* no linkage call is under way
LinkIdle ==
    /\ stored = [t \in Tenants |-> NoItem]
    /\ mem = [c \in Callers |-> NoTenant]
    /\ last = NoCall
    /\ linked = [t \in Tenants |-> [k \in ALLOWED_TENANT_PARENT_MAP_KEYS |-> "-"]]

InitRead ==
    /\ LinkIdle
    /\ table \in Tables
    /\ ReadIdle

\* the hash keys of the items of a result, in the order returned
NamesOf(items) == [i \in DOMAIN items |-> items[i].name]

\* a scan or query reads the table and changes nothing, so what it returns
\* does not depend on the calls before it: each behaviour shows one call
Asked(op, key, active, tenant_name, cloud, items) ==
    /\ q = NoQuery
    /\ q' = [op |-> op, key |-> key, active |-> active,
             tenant_name |-> tenant_name, cloud |-> cloud,
             items |-> NamesOf(items)]
    /\ UNCHANGED <<table, page, dto>>
    /\ UNCHANGED linkvars

ScanTenants(only_active) ==
    Asked("scan_tenants", "", IF only_active THEN "True" ELSE "False", None,
          NoQuery.cloud, scan_tenants(table, only_active, 0, None))

GetTenantsByParentId(parent_id, only_active) ==
    Asked("get_tenants_by_parent_id", parent_id, only_active, None,
          NoQuery.cloud, get_tenants_by_parent_id(table, parent_id, only_active))

IGetTenantByParentId(parent_id, active) ==
    Asked("i_get_tenant_by_parent_id", parent_id, active, None, NoQuery.cloud,
          List(i_get_tenant_by_parent_id(table, parent_id, active, 0, None)))

IGetTenantByCustomer(customer_id, active, tenant_name) ==
    Asked("i_get_tenant_by_customer", customer_id, active, tenant_name,
          NoQuery.cloud,
          List(i_get_tenant_by_customer(table, customer_id, active,
                                        tenant_name, 0, None)))

IGetByAcc(acc, active) ==
    Asked("i_get_by_acc", acc, active, None, NoQuery.cloud,
          List(i_get_by_acc(table, acc, active, 0, None)))

IGetByDntl(dntl, cloud, active) ==
    Asked("i_get_by_dntl", dntl, active, None, cloud,
          List(i_get_by_dntl(table, dntl, cloud, active, 0, None)))

NextQuery ==
    \/ \E only_active \in BOOLEAN : ScanTenants(only_active)
    \/ \E parent_id \in ParentIdArgs, only_active \in {"True", "False"} :
           GetTenantsByParentId(parent_id, only_active)
    \/ \E parent_id \in ParentIdArgs, active \in ActiveArgs :
           IGetTenantByParentId(parent_id, active)
    \/ \E customer_id \in CustomerArgs, active \in ActiveArgs,
          tenant_name \in TenantNameArgs :
           IGetTenantByCustomer(customer_id, active, tenant_name)
    \/ \E acc \in AccArgs, active \in ActiveArgs : IGetByAcc(acc, active)
    \/ \E dntl \in DntlArgs, cloud \in CloudArgs, active \in ActiveArgs :
           IGetByDntl(dntl, cloud, active)

SpecQuery == InitRead /\ [][NextQuery]_vars

(* ---- a caller collecting a scan page by page --------------------------- *)

\* the loop gives up after this many calls
PageCallCap == NumRecords + 2

\* the caller starts a loop over i_scan_tenants with limit 1
StartPaging(only_active) ==
    /\ page.phase = "idle"
    /\ page' = [NoPage EXCEPT !.phase = "paging", !.only_active = only_active]
    /\ UNCHANGED <<table, q, dto>>
    /\ UNCHANGED linkvars

\* one call i_scan_tenants(only_active, 1, cursor); the caller keeps the items
\* and the iterator's last_evaluated_key, and stops when that is None
FetchPage ==
    /\ page.phase = "paging"
    /\ page.calls < PageCallCap
    /\ LET r == i_scan_tenants(table, page.only_active, 1, page.cursor)
       IN  page' = [page EXCEPT
                       !.collected = page.collected \o NamesOf(r.items),
                       !.cursor = r.last_evaluated_key,
                       !.calls = page.calls + 1,
                       !.phase = IF r.last_evaluated_key = None
                                 THEN "done" ELSE "paging"]
    /\ UNCHANGED <<table, q, dto>>
    /\ UNCHANGED linkvars

NextPage ==
    \/ \E only_active \in BOOLEAN : StartPaging(only_active)
    \/ FetchPage

SpecPage == InitRead /\ [][NextPage]_vars

(* ---- get_dto ----------------------------------------------------------- *)

InitDto ==
    /\ LinkIdle
    /\ table = <<>>
    /\ ReadIdle

\* get_dto is a function of its argument: each behaviour shows one call
GetDto(tenant_json) ==
    /\ ~dto.called
    /\ dto' = [called |-> TRUE, tenant_json |-> tenant_json,
               result |-> get_dto(tenant_json)]
    /\ UNCHANGED <<table, q, page>>
    /\ UNCHANGED linkvars

NextDto == \E tenant_json \in TenantJsons : GetDto(tenant_json)

SpecDto == InitDto /\ [][NextDto]_vars

TypeOK ==
    /\ \A t \in Tenants : stored[t].name = t
    /\ \A c \in Callers : mem[c].loaded => mem[c].name \in Tenants
    /\ last.op \in {"none", "get", "add", "remove"}

(* ---- shorthands for the properties ------------------------------------ *)

\* the item of the tenant the latest call worked on, as it is now
ItemNow == stored[last.memBefore.name]

\* the latest call left the table and the caller's object as they were
NothingChanged ==
    /\ ~last.updated
    /\ ItemNow = last.storedBefore
    /\ mem[last.caller] = last.memBefore

\* key k has the same value, or is as absent, in maps m1 and m2
SameSlot(m1, m2, k) ==
    /\ k \in DOMAIN m1 <=> k \in DOMAIN m2
    /\ k \in DOMAIN m1 => m1[k] = m2[k]

(* ---- properties -------------------------------------------------------- *)

\* C1: when attaches of two different allow-listed linkage types have both
\* returned successfully on a tenant (and neither slot was detached since),
\* the stored linkage map holds both keys with their parent ids, whatever the
\* interleaving of the callers' reads and updates: no attach is lost.
C1_NoAttachLost ==
    \A t \in Tenants : \A a, b \in ALLOWED_TENANT_PARENT_MAP_KEYS :
        (a # b /\ linked[t][a] # "-" /\ linked[t][b] # "-") =>
            /\ a \in DOMAIN stored[t].parent_map
            /\ stored[t].parent_map[a] = linked[t][a]
            /\ b \in DOMAIN stored[t].parent_map
            /\ stored[t].parent_map[b] = linked[t][b]

\* C2 as stated: a second attach of a linkage type that was attached and not
\* detached since fails with LinkageAlreadySet and leaves the linkage map as
\* the first attach left it, with the first parent id.
C2_SecondAttachAlreadySet ==
    (last.op = "add" /\ last.linkedBefore # "-") =>
        /\ last.result = LinkageAlreadySet
        /\ NothingChanged
        /\ last.type_ \in DOMAIN ItemNow.parent_map
        /\ ItemNow.parent_map[last.type_] = last.linkedBefore

\* C2 amended: the second attach fails with a ModularException, which is
\* LinkageAlreadySet when its parent is not deleted and TargetDeleted when it
\* is, and the linkage map stays as the first attach left it.
C2_SecondAttachRejected ==
    (last.op = "add" /\ last.linkedBefore # "-") =>
        /\ last.result =
               (IF last.parent_deleted THEN TargetDeleted ELSE LinkageAlreadySet)
        /\ NothingChanged
        /\ last.type_ \in DOMAIN ItemNow.parent_map
        /\ ItemNow.parent_map[last.type_] = last.linkedBefore

\* a second attach of an attached type, with another live parent, was rejected
C2_Witness ==
    /\ last.op = "add"
    /\ last.linkedBefore # "-"
    /\ ~last.parent_deleted
    /\ last.parent # last.linkedBefore
    /\ last.result = LinkageAlreadySet

\* C3: a stored linkage slot that is SET never changes its parent id in one
\* step: it goes from SET(a) only to UNSET, never directly to SET(b), b # a.
C3_SlotNeverReSet ==
    [][\A t \in Tenants : \A k \in ALLOWED_TENANT_PARENT_MAP_KEYS :
          (k \in DOMAIN stored[t].parent_map /\ k \in DOMAIN stored'[t].parent_map)
              => stored'[t].parent_map[k] = stored[t].parent_map[k]]_vars

\* C4: add_to_parent_map with a linkage type outside the allow-list fails with
\* InvalidLinkageType, sends no update and leaves the in-memory and the
\* stored tenant unchanged.
C4_UnknownTypeRejected ==
    (last.op = "add" /\ last.type_ \notin ALLOWED_TENANT_PARENT_MAP_KEYS) =>
        /\ last.result = InvalidLinkageType
        /\ NothingChanged

\* an unknown type was rejected on a call that was valid otherwise
C4_Witness ==
    /\ last.op = "add"
    /\ last.type_ \notin ALLOWED_TENANT_PARENT_MAP_KEYS
    /\ last.memBefore.is_active
    /\ ~last.parent_deleted
    /\ last.result = InvalidLinkageType

\* C5: a successful add_to_parent_map of type T leaves every other key of the
\* stored linkage map as it was in the table right before the update.
C5_AttachKeepsOtherSlots ==
    (last.op = "add" /\ last.updated) =>
        \A k \in ALLOWED_TENANT_PARENT_MAP_KEYS \ {last.type_} :
            SameSlot(ItemNow.parent_map, last.storedBefore.parent_map, k)

\* C6: remove_from_parent_map on an inactive tenant, with any linkage type,
\* returns without raising, sends no update and leaves the linkage map and
\* the tenant object unchanged.
C6_DetachInactiveNoOp ==
    (last.op = "remove" /\ ~last.memBefore.is_active) =>
        /\ last.result = Returned
        /\ NothingChanged

\* detach was called on an inactive tenant for a type its map holds
C6_Witness ==
    /\ last.op = "remove"
    /\ ~last.memBefore.is_active
    /\ last.type_ \in DOMAIN last.storedBefore.parent_map
    /\ last.result = Returned

\* C7: remove_from_parent_map on an active tenant whose stored linkage map
\* does not hold the type (the map may be empty or not written yet) does not
\* raise and leaves the stored linkage map unchanged.
C7_DetachAbsentKeyNoOp ==
    (/\ last.op = "remove"
     /\ last.memBefore.is_active
     /\ last.type_ \notin DOMAIN last.storedBefore.parent_map) =>
        /\ last.result = Returned
        /\ ItemNow.parent_map = last.storedBefore.parent_map

\* C8: every key of every stored linkage map is in the allow-list.
C8_KeysAllowListed ==
    \A t \in Tenants :
        DOMAIN stored[t].parent_map \subseteq ALLOWED_TENANT_PARENT_MAP_KEYS

\* a detach with an unknown type reached the table after an attach had set a
\* slot
C8_Witness ==
    /\ last.op = "remove"
    /\ last.type_ \notin ALLOWED_TENANT_PARENT_MAP_KEYS
    /\ last.updated
    /\ \E k \in ALLOWED_TENANT_PARENT_MAP_KEYS :
           linked[last.memBefore.name][k] # "-"

\* C9: add_to_parent_map on an inactive tenant, with an allow-listed type and
\* any parent, fails with EntityInactive, sends no update and leaves the
\* linkage map unchanged.
C9_AttachInactiveRejected ==
    (/\ last.op = "add"
     /\ last.type_ \in ALLOWED_TENANT_PARENT_MAP_KEYS
     /\ ~last.memBefore.is_active) =>
        /\ last.result = EntityInactive
        /\ NothingChanged

\* an attach that only the inactive tenant stops was rejected
C9_Witness ==
    /\ last.op = "add"
    /\ last.type_ \in ALLOWED_TENANT_PARENT_MAP_KEYS
    /\ ~last.memBefore.is_active
    /\ ~last.parent_deleted
    /\ last.type_ \notin DOMAIN last.memBefore.parent_map
    /\ last.result = EntityInactive

\* C10: add_to_parent_map with a deleted parent, on an active tenant and with
\* an allow-listed type, fails with TargetDeleted and sends no update; no
\* stored linkage map references a deleted parent.
C10_DeletedParentRejected ==
    /\ (/\ last.op = "add"
        /\ last.type_ \in ALLOWED_TENANT_PARENT_MAP_KEYS
        /\ last.memBefore.is_active
        /\ last.parent_deleted) =>
           /\ last.result = TargetDeleted
           /\ NothingChanged
    /\ \A t \in Tenants : \A k \in DOMAIN stored[t].parent_map :
           stored[t].parent_map[k] \notin DeletedParentIds

\* an attach of a free slot that only the deleted parent stops was rejected
C10_Witness ==
    /\ last.op = "add"
    /\ last.type_ \in ALLOWED_TENANT_PARENT_MAP_KEYS
    /\ last.memBefore.is_active
    /\ last.parent_deleted
    /\ last.type_ \notin DOMAIN last.memBefore.parent_map
    /\ last.result = TargetDeleted

\* C11: add_to_parent_map of an allow-listed type with a parent that is not
\* deleted, on an active tenant whose linkage map is empty, returns the same
\* tenant, and then the in-memory tenant and the stored item both have the
\* linkage map {type: parent id} and nothing else.
C11_FirstAttachSetsExactlyOneSlot ==
    (/\ last.op = "add"
     /\ last.type_ \in ALLOWED_TENANT_PARENT_MAP_KEYS
     /\ last.memBefore.is_active
     /\ ~last.parent_deleted
     /\ last.memBefore.parent_map = EmptyDict
     /\ last.storedBefore.parent_map = EmptyDict) =>
        /\ last.result = Returned
        /\ mem[last.caller].name = last.memBefore.name
        /\ DOMAIN mem[last.caller].parent_map = {last.type_}
        /\ mem[last.caller].parent_map[last.type_] = last.parent
        /\ ItemNow.has_map
        /\ DOMAIN ItemNow.parent_map = {last.type_}
        /\ ItemNow.parent_map[last.type_] = last.parent

\* the first attach on a tenant with an empty map succeeded
C11_Witness ==
    /\ last.op = "add"
    /\ last.memBefore.parent_map = EmptyDict
    /\ last.storedBefore.parent_map = EmptyDict
    /\ last.result = Returned
    /\ last.updated
    /\ DOMAIN ItemNow.parent_map = {last.type_}

\* C18: on one tenant object, a detach of type T that follows a successful
\* attach of T leaves the slot UNSET in the stored item and in the object,
\* and the next attach of T with a parent that is not deleted succeeds and
\* sets the slot to the new parent id.
C18_DetachReenablesAttach ==
    /\ (last.op = "remove" /\ last.linkedBefore # "-") =>
           /\ last.result = Returned
           /\ last.type_ \notin DOMAIN ItemNow.parent_map
           /\ last.type_ \notin DOMAIN mem[last.caller].parent_map
    /\ (last.op = "add" /\ last.afterDetach /\ ~last.parent_deleted) =>
           /\ last.result = Returned
           /\ last.type_ \in DOMAIN ItemNow.parent_map
           /\ ItemNow.parent_map[last.type_] = last.parent
           /\ last.type_ \in DOMAIN mem[last.caller].parent_map
           /\ mem[last.caller].parent_map[last.type_] = last.parent

\* a slot was attached, detached and attached again
C18_Witness ==
    /\ last.op = "add"
    /\ last.afterDetach
    /\ last.result = Returned
    /\ last.updated

\* C19: add_to_parent_map reports the first precondition that fails in the
\* order type allow-listed, tenant active, parent not deleted, slot free, and
\* sends the update only when all four hold.
C19_PreconditionOrder ==
    last.op = "add" =>
        /\ last.result =
               (IF last.type_ \notin ALLOWED_TENANT_PARENT_MAP_KEYS
                    THEN InvalidLinkageType
                ELSE IF ~last.memBefore.is_active THEN EntityInactive
                ELSE IF last.parent_deleted THEN TargetDeleted
                ELSE IF last.type_ \in DOMAIN last.memBefore.parent_map
                    THEN LinkageAlreadySet
                ELSE Returned)
        /\ last.updated <=>
               /\ last.type_ \in ALLOWED_TENANT_PARENT_MAP_KEYS
               /\ last.memBefore.is_active
               /\ ~last.parent_deleted
               /\ last.type_ \notin DOMAIN last.memBefore.parent_map

\* an unknown type on an inactive tenant with a deleted parent was reported
\* as the unknown type
C19_Witness ==
    /\ last.op = "add"
    /\ last.type_ \notin ALLOWED_TENANT_PARENT_MAP_KEYS
    /\ ~last.memBefore.is_active
    /\ last.parent_deleted
    /\ last.result = InvalidLinkageType

\* C20: remove_from_parent_map on an active tenant leaves every key other
\* than the given one as it was in the table right before the update, and
\* adds no key, whatever other callers did to the tenant meanwhile.
C20_DetachKeepsOtherSlots ==
    (last.op = "remove" /\ last.memBefore.is_active) =>
        /\ \A k \in ALLOWED_TENANT_PARENT_MAP_KEYS \ {last.type_} :
               SameSlot(ItemNow.parent_map, last.storedBefore.parent_map, k)
        /\ DOMAIN ItemNow.parent_map \subseteq DOMAIN last.storedBefore.parent_map

\* a detach removed its key from a table map that held another key which the
\* caller's own copy did not hold
C20_Witness ==
    /\ last.op = "remove"
    /\ last.memBefore.is_active
    /\ last.result = Returned
    /\ last.type_ \in DOMAIN last.storedBefore.parent_map
    /\ last.type_ \notin DOMAIN ItemNow.parent_map
    /\ \E k \in DOMAIN ItemNow.parent_map :
           k \notin DOMAIN last.memBefore.parent_map

(* ---- properties of the scans, the queries and get_dto ------------------ *)

\* the item of the table with the given hash key
ItemNamed(name) == table[CHOOSE i \in DOMAIN table : table[i].name = name]

\* the hash keys the latest scan or query returned
Returned_Names == {q.items[i] : i \in DOMAIN q.items}

\* the hash keys of the items of the table that satisfy Keep
NamesWhere(Keep(_)) == {table[i].name : i \in {j \in DOMAIN table : Keep(table[j])}}

\* the activity conjunct a call with this active argument asks for
ActiveAsked(active, item) == active # None => item.is_active = PyBool(active)

\* C12: no scan or query asked for active tenants only (only_active = True,
\* active = True) returns a tenant that is marked as not active, which is
\* how a Tenant is soft-deleted.
C12_ActiveOnlyExcludesDeleted ==
    (q.op # "none" /\ q.active = "True") =>
        \A name \in Returned_Names : ItemNamed(name).is_active

\* an active-only query left out an inactive tenant that its key matches and
\* returned an active one
C12_Witness ==
    /\ q.op = "i_get_by_acc"
    /\ q.active = "True"
    /\ Returned_Names # {}
    /\ \E i \in DOMAIN table :
           /\ table[i].project = q.key
           /\ ~table[i].is_active
           /\ table[i].name \notin Returned_Names

\* the loop over the pages of the scan is over
PagingDone == page.phase = "done"

\* what one call with a limit of at least the number of items returns
OneCall(only_active) ==
    NamesOf(i_scan_tenants(table, only_active, NumRecords, None).items)

SeqToSet(seq) == {seq[i] : i \in DOMAIN seq}

\* C13: collecting the pages of a scan with limit 1, passing each returned
\* last_evaluated_key to the next call until it is None, returns no item
\* twice, ends after at most one call more than there are matching items,
\* and has then collected the same set of items as one call with a limit of
\* at least the total count.
C13_CursorRoundTrip ==
    /\ Cardinality(SeqToSet(page.collected)) = Len(page.collected)
    /\ SeqToSet(page.collected) \subseteq SeqToSet(OneCall(page.only_active))
    /\ page.calls <= Len(OneCall(page.only_active)) + 1
    /\ page.phase = "paging" => page.calls < PageCallCap
    /\ PagingDone =>
           SeqToSet(page.collected) = SeqToSet(OneCall(page.only_active))

\* a filtered loop ended after it had passed over an item that the filter
\* leaves out and collected more than one page
C13_Witness ==
    /\ PagingDone
    /\ page.only_active
    /\ Len(page.collected) >= 2
    /\ Len(page.collected) < NumRecords

\* C14: i_get_tenant_by_customer returns exactly the tenants of the customer
\* that are as active as asked (when active is not None) and have the name
\* asked for (when tenant_name is a string that is not empty).
C14_Keep(item) ==
    /\ item.customer_name = q.key
    /\ ActiveAsked(q.active, item)
    /\ (q.tenant_name # None /\ q.tenant_name # "") => item.name = q.tenant_name

C14_CustomerFiltersCompose ==
    q.op = "i_get_tenant_by_customer" => Returned_Names = NamesWhere(C14_Keep)

\* a query with both filters left out a tenant of the customer that has the
\* name asked for but is not as active as asked
C14_Witness ==
    /\ q.op = "i_get_tenant_by_customer"
    /\ q.active = "True"
    /\ q.tenant_name \in {"T1", "T2"}
    /\ Returned_Names = {}
    /\ \E i \in DOMAIN table :
           /\ table[i].customer_name = q.key
           /\ table[i].name = q.tenant_name
           /\ ~table[i].is_active

\* C15: get_dto lists the maestro_name of a region that has one and whose
\* is_active is absent, None or true, lists no region whose is_active is
\* false and none without a maestro_name, keeps the order of the regions, and
\* gives the value of project as account_id.
C15_Expected(regions) ==
    SelectSeq(regions, LAMBDA each : /\ each.maestro_name # Absent
                                     /\ each.is_active \in {Absent, None, "True"})

C15_ProjectionTriState ==
    dto.called =>
        LET shown == C15_Expected(dto.tenant_json.regions)
        IN  /\ dto.result.regions = [i \in DOMAIN shown |-> shown[i].maestro_name]
            /\ dto.result.account_id =
                   (IF dto.tenant_json.project = Absent THEN None
                    ELSE dto.tenant_json.project)
            /\ ~dto.result.has_project

\* a region without the flag was listed and one with a false flag was not
C15_Witness ==
    /\ dto.called
    /\ dto.tenant_json.project # Absent
    /\ Len(dto.tenant_json.regions) = 2
    /\ dto.tenant_json.regions[1].maestro_name # Absent
    /\ dto.tenant_json.regions[1].is_active = "False"
    /\ dto.tenant_json.regions[2].maestro_name # Absent
    /\ dto.tenant_json.regions[2].is_active = Absent
    /\ dto.result.regions = <<dto.tenant_json.regions[2].maestro_name>>

\* C16: i_get_by_dntl returns exactly the tenants whose dntl is the one given,
\* whose cloud is the upper-case form of the cloud given (any cloud when
\* cloud is None), and that are as active as asked.
C16_Keep(item) ==
    /\ item.dntl = q.key
    /\ q.cloud.given =>
           /\ Len(item.cloud) = Len(q.cloud.value)
           /\ \A i \in DOMAIN item.cloud :
                  item.cloud[i] = UpperChar(q.cloud.value[i])
    /\ ActiveAsked(q.active, item)

C16_DntlCloudUppercased ==
    q.op = "i_get_by_dntl" => Returned_Names = NamesWhere(C16_Keep)

\* a cloud given in lower case matched a tenant and left out one of another
\* cloud with the same dntl
C16_Witness ==
    /\ q.op = "i_get_by_dntl"
    /\ q.cloud = [given |-> TRUE, value |-> <<"a", "w", "s">>]
    /\ Returned_Names # {}
    /\ \E i \in DOMAIN table :
           /\ table[i].dntl = q.key
           /\ table[i].cloud = AZURE
           /\ table[i].name \notin Returned_Names

\* C17: i_get_tenant_by_parent_id returns only tenants whose
\* management_parent_id is the parent_id given, whatever active is.
C17_OnlyTenantsOfParent ==
    q.op \in {"i_get_tenant_by_parent_id", "get_tenants_by_parent_id"} =>
        \A name \in Returned_Names :
            ItemNamed(name).management_parent_id = q.key

====
